---- MODULE Spec2Model ----
(***************************************************************************)
(* Inventory ledger and order fulfillment of InvenEase (Server/src/api/    *)
(* services): stock.service.ts, transaction.service.ts,                    *)
(* purchaseOrder.service.ts, salesOrder.service.ts, audit.service.ts, and  *)
(* the notification service.                                               *)
(*                                                                         *)
(* The database is the record db (one field per Prisma model).  A request  *)
(* is a process; a request that runs inside prisma.$transaction keeps its  *)
(* uncommitted rows in view, the row locks it holds in locks and the rows  *)
(* it inserted in newTx / newAudit, and copies them to db when the         *)
(* callback returns (commit) or drops them when it throws (rollback).      *)
(* The datasource is MySQL (schema.prisma), so a plain read inside a       *)
(* transaction is served from the snapshot taken at its first read, while  *)
(* an UPDATE reads and locks the current committed row.                    *)
(***************************************************************************)
EXTENDS Integers, Sequences, FiniteSets, Bags, TLC

\* ---------------------------------------------------------------- bounds
\* Largest quantity a request asks for.
MaxQuantity == 2
\* No movement is issued that would take the Transaction table past this.
MaxTransactions == 3
\* No call is issued that would take the AuditLog table past this.
MaxAuditLog == 3
\* No upsert is issued outside a transaction that would take a StockLevel
\* quantity past this, in either direction.
MaxStock == 2
\* No order is created past this many orders, purchase and sales together.
MaxOrders == 2

\* ------------------------------------------------------- reference data
Products == {"P1"}
Locations == {"L1", "L2"}
\* A well-formed location id that names no Location row.
NoLocation == "L0"
LocationIds == Locations \cup {NoLocation}
Quantities == 1..MaxQuantity
Null == "null"

PoIds == {"PO1"}
PoItemIds == {"A1", "A2"}
SoIds == {"SO1"}
SoItemIds == {"B1", "B2"}

Procs == {1, 2}

Suppliers == {"S1"}
\* A well-formed supplier id and a well-formed product id that name no row.
NoSupplier == "S0"
NoProduct == "P0"

OrderStatus ==
    {"PENDING", "APPROVED", "PROCESSING", "RECEIVED", "SHIPPED", "PARTIAL", "COMPLETED", "CANCELLED"}

AdjustmentTypes == {"ADJUSTMENT_IN", "ADJUSTMENT_OUT"}

VARIABLES
    db,     \* the committed database
    proc    \* proc[p]: the request process p is serving, and its open transaction

vars == <<db, proc>>

\* ------------------------------------------------------------ the tables
StockKeys == Products \X Locations

NoStockLevel == [exists |-> FALSE, quantity |-> 0]

\* StockLevel(P,L).quantity, 0 when no row exists.
Quantity(stockLevel, productId, locationId) ==
    IF <<productId, locationId>> \in StockKeys
    THEN stockLevel[<<productId, locationId>>].quantity
    ELSE 0

Max(a, b) == IF a >= b THEN a ELSE b

RECURSIVE SumOver(_, _)
SumOver(f, S) ==
    IF S = {} THEN 0
    ELSE LET x == CHOOSE y \in S : TRUE IN f[x] + SumOver(f, S \ {x})

\* tx.transaction.create: one more row in the Transaction table.  A table is
\* the bag of its rows.
Insert(table, row) == table (+) SetToBag({row})

\* A Transaction row as tx.transaction.create writes it.
TransactionRowUnsigned(type, productId, quantityChange, sourceLocationId, destinationLocationId, relatedPoId, relatedSoId) ==
    [type |-> type, productId |-> productId,
     quantityChange |-> IF quantityChange < 0 THEN -quantityChange ELSE quantityChange,
     sourceLocationId |-> sourceLocationId, destinationLocationId |-> destinationLocationId,
     relatedPoId |-> relatedPoId, relatedSoId |-> relatedSoId]

TransactionRowUnrelated(type, productId, quantityChange, sourceLocationId, destinationLocationId, relatedPoId, relatedSoId) ==
    [type |-> type, productId |-> productId, quantityChange |-> quantityChange,
     sourceLocationId |-> sourceLocationId, destinationLocationId |-> destinationLocationId,
     relatedPoId |-> Null, relatedSoId |-> Null]

TransactionRowSwapped(type, productId, quantityChange, sourceLocationId, destinationLocationId, relatedPoId, relatedSoId) ==
    [type |-> type, productId |-> productId, quantityChange |-> quantityChange,
     sourceLocationId |-> destinationLocationId, destinationLocationId |-> sourceLocationId,
     relatedPoId |-> relatedPoId, relatedSoId |-> relatedSoId]

TransactionRow(type, productId, quantityChange, sourceLocationId, destinationLocationId, relatedPoId, relatedSoId) ==
    [type |-> type, productId |-> productId, quantityChange |-> quantityChange,
     sourceLocationId |-> sourceLocationId, destinationLocationId |-> destinationLocationId,
     relatedPoId |-> relatedPoId, relatedSoId |-> relatedSoId]

\* prismaClient.auditLog.create: one more AuditLog row.
LogAction(auditLog, action) == auditLog (+) SetToBag({action})

\* Whether an insert into the AuditLog table fails, and whether the inserts
\* of a notification go through: both always work unless the database is
\* degraded.
AuditCreateFails == IF db.degraded THEN BOOLEAN ELSE {FALSE}

NotificationCreated == IF db.degraded THEN BOOLEAN ELSE {TRUE}

\* logAction wraps auditLog.create in try/catch: a failed insert is logged
\* with logger.error and nothing is thrown to the caller.
LogActionErrorRethrown(createFails) == IF createFails THEN "DbError" ELSE "none"

LogActionError(createFails) == "none"

TryLogAction(auditLog, action, createFails) ==
    IF createFails THEN auditLog ELSE LogAction(auditLog, action)

\* What logger.error records of a call of logAction.
LoggedErrors(createFails) == IF createFails THEN {"logAction"} ELSE {}

\* ---------------------------------------------------- notification.service
\* A call of createLowStockNotification or of
\* createOrderStatusUpdateNotification; created tells whether
\* createNotification stored the rows or caught the error of the insert.
LowStockTrigger(productId, locationId, quantity, created) ==
    [type |-> "LOW_STOCK", entityId |-> productId, locationId |-> locationId,
     quantity |-> quantity, status |-> Null, created |-> created]

OrderStatusTrigger(orderId, newStatus, created) ==
    [type |-> "ORDER_STATUS_UPDATE", entityId |-> orderId, locationId |-> Null,
     quantity |-> 0, status |-> newStatus, created |-> created]

\* --------------------------------------------------------- stock.service
\* The row prismaClient.stockLevel.upsert leaves: create with
\* Math.max(0, quantityChange), or update with an increment.
UpsertStockLevelCreateEmpty(row, quantityChange) ==
    IF row.exists
    THEN [exists |-> TRUE, quantity |-> row.quantity + quantityChange]
    ELSE [exists |-> TRUE, quantity |-> 0]

UpsertStockLevel(row, quantityChange) ==
    IF row.exists
    THEN [exists |-> TRUE, quantity |-> row.quantity + quantityChange]
    ELSE [exists |-> TRUE, quantity |-> Max(0, quantityChange)]

\* The post-update check: checkNegative && result.quantity < 0.
NegativeCheckOffByOne(checkNegative, row) == checkNegative /\ row.quantity < -1

WentNegative(checkNegative, row) == checkNegative /\ row.quantity < 0

\* The check for crossing the reorder level, on the quantity the upsert
\* returned: oldQuantity is result.quantity - quantityChange.
CrossedReorderLevelAtOrBelow(quantity, quantityChange, reorderLevel) ==
    /\ reorderLevel > 0
    /\ quantity <= reorderLevel

CrossedReorderLevel(quantity, quantityChange, reorderLevel) ==
    /\ reorderLevel > 0
    /\ quantity <= reorderLevel
    /\ quantity - quantityChange > reorderLevel

\* adjustStockLevel on a StockLevel table: the table after the upsert ran
\* (written), whether the statement ran at all (ran), the error thrown, and
\* whether createLowStockNotification was called (lowStock).
\* A ConflictError is thrown after the upsert has run: only the rollback of
\* the surrounding transaction, if there is one, takes the row back.
AdjustStockLevelZeroAllowed(stockLevel, productId, locationId, quantityChange, checkNegative) ==
    IF <<productId, locationId>> \notin StockKeys \/ productId \notin DOMAIN db.product
    THEN [written |-> stockLevel, ran |-> FALSE, error |-> "NotFoundError", lowStock |-> FALSE]
    ELSE LET key == <<productId, locationId>>
             result == UpsertStockLevel(stockLevel[key], quantityChange)
             negative == WentNegative(checkNegative, result)
         IN [written |-> [stockLevel EXCEPT ![key] = result],
             ran |-> TRUE,
             error |-> IF negative THEN "ConflictError" ELSE "none",
             lowStock |-> /\ ~negative
                          /\ CrossedReorderLevel(result.quantity, quantityChange,
                                                 db.product[productId].reorderLevel)]

AdjustStockLevel(stockLevel, productId, locationId, quantityChange, checkNegative) ==
    IF quantityChange = 0
    THEN [written |-> stockLevel, ran |-> FALSE, error |-> "BadRequestError", lowStock |-> FALSE]
    ELSE IF <<productId, locationId>> \notin StockKeys \/ productId \notin DOMAIN db.product
    THEN \* P2003, foreign key constraint failed
         [written |-> stockLevel, ran |-> FALSE, error |-> "NotFoundError", lowStock |-> FALSE]
    ELSE LET key == <<productId, locationId>>
             result == UpsertStockLevel(stockLevel[key], quantityChange)
             negative == WentNegative(checkNegative, result)
         IN [written |-> [stockLevel EXCEPT ![key] = result],
             ran |-> TRUE,
             error |-> IF negative THEN "ConflictError" ELSE "none",
             lowStock |-> /\ ~negative
                          /\ CrossedReorderLevel(result.quantity, quantityChange,
                                                 db.product[productId].reorderLevel)]

\* The triggers one call of adjustStockLevel emits.
LowStock(adj, productId, locationId, created) ==
    IF adj.lowStock
    THEN {LowStockTrigger(productId, locationId,
                          Quantity(adj.written, productId, locationId), created)}
    ELSE {}

\* ------------------------------------------------------------- processes
StockLock(productId, locationId) == <<"StockLevel", productId, locationId>>
RowLock(table, id) == <<table, id, id>>

\* Another open transaction holds the row lock.
LockedByOther(p, lock) == \E q \in Procs \ {p} : lock \in proc[q].locks

NoArgs ==
    [productId |-> Null, locationId |-> Null, destinationLocationId |-> Null, quantity |-> 0,
     type |-> Null, orderId |-> Null, itemId |-> Null, status |-> Null,
     checkNegative |-> FALSE, supplierId |-> Null, orderNumber |-> Null, items |-> <<>>]

NoLocals == [status |-> Null]

Idle(d) ==
    [pc |-> "idle", op |-> Null, args |-> NoArgs, result |-> Null, pre |-> d, view |-> d,
     locks |-> {}, newTx |-> EmptyBag, newAudit |-> EmptyBag, local |-> NoLocals,
     emitted |-> {}, errorsLogged |-> {}]

\* The process may take a new request.
CanCall(p) == proc[p].pc = "idle"

\* The request has returned (error = "none") or thrown; an open transaction
\* is over, its locks released and its view dropped.
Returned(op, args, error, pre) ==
    [pc |-> "done", op |-> op, args |-> args, result |-> error, pre |-> pre, view |-> pre,
     locks |-> {}, newTx |-> EmptyBag, newAudit |-> EmptyBag, local |-> NoLocals,
     emitted |-> {}, errorsLogged |-> {}]

\* The same, with the notification triggers the request emitted and what it
\* wrote with logger.error.
ReturnedWith(op, args, error, pre, emitted, errorsLogged) ==
    [Returned(op, args, error, pre) EXCEPT !.emitted = emitted, !.errorsLogged = errorsLogged]

\* The rows a committing transaction makes visible: the rows it locked, as
\* its view holds them, and the rows it inserted.
Commit(d, r) ==
    [d EXCEPT
        !.stockLevel = [k \in StockKeys |->
            IF StockLock(k[1], k[2]) \in r.locks THEN r.view.stockLevel[k] ELSE @[k]],
        !.purchaseOrderItem = [i \in PoItemIds |->
            IF RowLock("PurchaseOrderItem", i) \in r.locks THEN r.view.purchaseOrderItem[i] ELSE @[i]],
        !.purchaseOrder = [o \in PoIds |->
            IF RowLock("PurchaseOrder", o) \in r.locks THEN r.view.purchaseOrder[o] ELSE @[o]],
        !.salesOrderItem = [i \in SoItemIds |->
            IF RowLock("SalesOrderItem", i) \in r.locks THEN r.view.salesOrderItem[i] ELSE @[i]],
        !.salesOrder = [o \in SoIds |->
            IF RowLock("SalesOrder", o) \in r.locks THEN r.view.salesOrder[o] ELSE @[o]],
        !.transaction = @ (+) r.newTx,
        !.auditLog = @ (+) r.newAudit]

\* The callback of prisma.$transaction threw: the database keeps none of what
\* the transaction of r wrote.
RollbackKeepsWrites(d, r) == Commit(d, r)

Rollback(d, r) == d

\* The StockLevel table an UPDATE inside the transaction of r works on: the
\* committed rows, and r's own uncommitted ones.
CurrentStock(d, r) ==
    [k \in StockKeys |->
        IF StockLock(k[1], k[2]) \in r.locks THEN r.view.stockLevel[k] ELSE d.stockLevel[k]]

\* The Transaction rows a request inserts when it succeeds; every request
\* inserts one AuditLog row.
TransactionsOf(op) ==
    CASE op = "recordTransfer" -> 2
      [] op \in {"recordAdjustment", "receivePurchaseOrderItem", "shipSalesOrderItem"} -> 1
      [] OTHER -> 0

Running == {q \in Procs : proc[q].pc \notin {"idle", "done"}}

\* The quantity of the row an upsert leaves is within the bound.
StockInBound(stockLevel, productId, locationId) ==
    Quantity(stockLevel, productId, locationId) \in -MaxStock..MaxStock

\* The tables stay within the bounds when the running requests and one more
\* that inserts this many rows all succeed.
RoomFor(transactions, audits) ==
    /\ BagCardinality(db.transaction)
         + SumOver([q \in Procs |-> TransactionsOf(proc[q].op)], Running)
         + transactions <= MaxTransactions
    /\ BagCardinality(db.auditLog) + Cardinality(Running) + audits <= MaxAuditLog

\* stockService.adjustStockLevel called by itself, without a transaction
\* client: the upsert runs on the global client and is committed when it
\* returns, whatever the function throws afterwards.
AdjustStock(p, productId, locationId, quantityChange, checkNegative) ==
    /\ CanCall(p)
    /\ ~LockedByOther(p, StockLock(productId, locationId))
    /\ LET adj == AdjustStockLevel(db.stockLevel, productId, locationId,
                                   quantityChange, checkNegative)
           args == [NoArgs EXCEPT !.productId = productId, !.locationId = locationId,
                                  !.quantity = quantityChange,
                                  !.checkNegative = checkNegative]
       IN /\ StockInBound(adj.written, productId, locationId)
          /\ \E created \in NotificationCreated :
               /\ db' = [db EXCEPT !.stockLevel = adj.written]
               /\ proc' = [proc EXCEPT ![p] =
                     ReturnedWith("adjustStockLevel", args, adj.error, db,
                                  LowStock(adj, productId, locationId, created), {})]

\* ---------------------------------------------------- transaction.service
\* recordAdjustment: one transaction of adjustStockLevel, transaction.create
\* and logAction.  Its one statement that reads is the upsert, which waits
\* for the row lock, so the call is one step.
RecordAdjustment(p, productId, locationId, quantityChange, type) ==
    /\ CanCall(p)
    /\ ~LockedByOther(p, StockLock(productId, locationId))
    /\ LET actualQuantityChange ==
               IF type = "ADJUSTMENT_IN" THEN quantityChange ELSE -quantityChange
           checkNegative == type = "ADJUSTMENT_OUT"
           adj == AdjustStockLevel(db.stockLevel, productId, locationId,
                                   actualQuantityChange, checkNegative)
           row == TransactionRow(type, productId, actualQuantityChange,
                                 IF type = "ADJUSTMENT_OUT" THEN locationId ELSE Null,
                                 IF type = "ADJUSTMENT_IN" THEN locationId ELSE Null,
                                 Null, Null)
           args == [NoArgs EXCEPT !.productId = productId, !.locationId = locationId,
                                  !.quantity = quantityChange, !.type = type]
       IN \E createFails \in BOOLEAN, auditFails \in AuditCreateFails,
             created \in NotificationCreated :
            LET audited == adj.error = "none" /\ ~createFails
                error == IF adj.error # "none" THEN adj.error
                         ELSE IF createFails THEN "DbError" ELSE LogActionError(auditFails)
            IN /\ audited => RoomFor(1, 1)
               /\ db' = IF error = "none"
                        THEN [db EXCEPT !.stockLevel = adj.written,
                                        !.transaction = Insert(@, row),
                                        !.auditLog = TryLogAction(@, "STOCK_" \o type, auditFails)]
                        ELSE db
               /\ proc' = [proc EXCEPT ![p] =
                     ReturnedWith("recordAdjustment", args, error, db,
                                  LowStock(adj, productId, locationId, created),
                                  IF audited THEN LoggedErrors(auditFails) ELSE {})]

\* recordTransfer, up to the decrement of the source: the validation, and
\* adjustStockLevel(source, -quantity, true) inside the new transaction.
RecordTransferOut(p, productId, sourceLocationId, destinationLocationId, quantity) ==
    /\ CanCall(p)
    /\ LET args == [NoArgs EXCEPT !.productId = productId, !.locationId = sourceLocationId,
                                  !.destinationLocationId = destinationLocationId,
                                  !.quantity = quantity]
       IN IF sourceLocationId = destinationLocationId \/ quantity <= 0
          THEN /\ proc' = [proc EXCEPT ![p] =
                              Returned("recordTransfer", args, "BadRequestError", db)]
               /\ UNCHANGED db
          ELSE /\ ~LockedByOther(p, StockLock(productId, sourceLocationId))
               /\ LET adj == AdjustStockLevel(db.stockLevel, productId, sourceLocationId,
                                              -quantity, TRUE)
                  IN /\ adj.error = "none" => RoomFor(2, 1)
                     /\ \E created \in NotificationCreated :
                          proc' = [proc EXCEPT ![p] =
                           IF adj.error # "none"
                           THEN Returned("recordTransfer", args, adj.error, db)
                           ELSE [Idle(db) EXCEPT
                                   !.pc = "transferIn", !.op = "recordTransfer", !.args = args,
                                   !.view = [db EXCEPT !.stockLevel = adj.written],
                                   !.locks = {StockLock(productId, sourceLocationId)},
                                   !.emitted = LowStock(adj, productId, sourceLocationId,
                                                        created)]]
               /\ UNCHANGED db

\* recordTransfer from the increment of the destination on: adjustStockLevel(
\* destination, +quantity, false), the two transaction.create, logAction, and
\* the commit.
RecordTransferIn(p) ==
    LET r == proc[p]
        a == r.args
    IN /\ r.pc = "transferIn"
       /\ ~LockedByOther(p, StockLock(a.productId, a.destinationLocationId))
       /\ LET adj == AdjustStockLevel(CurrentStock(db, r), a.productId,
                                      a.destinationLocationId, a.quantity, FALSE)
              outTx == TransactionRow("TRANSFER_OUT", a.productId, -a.quantity,
                                      a.locationId, a.destinationLocationId, Null, Null)
              inTx == TransactionRow("TRANSFER_IN", a.productId, a.quantity,
                                     a.locationId, a.destinationLocationId, Null, Null)
          IN \E createFails \in BOOLEAN, auditFails \in AuditCreateFails,
                created \in NotificationCreated :
               LET audited == adj.error = "none" /\ ~createFails
                   error == IF adj.error # "none" THEN adj.error
                            ELSE IF createFails THEN "DbError" ELSE LogActionError(auditFails)
                   done == [r EXCEPT
                               !.view.stockLevel = adj.written,
                               !.locks = @ \cup {StockLock(a.productId, a.destinationLocationId)},
                               !.newTx = Insert(Insert(EmptyBag, outTx), inTx),
                               !.newAudit = TryLogAction(EmptyBag, "STOCK_TRANSFER", auditFails)]
               IN /\ db' = IF error = "none" THEN Commit(db, done) ELSE Rollback(db, r)
                  /\ proc' = [proc EXCEPT ![p] =
                        ReturnedWith(r.op, a, error, r.pre,
                                     r.emitted \cup LowStock(adj, a.productId,
                                                             a.destinationLocationId, created),
                                     IF audited THEN LoggedErrors(auditFails) ELSE {})]

\* recordPurchaseReceipt hands adjustStockLevel
\* "prismaClient instanceof PrismaClient ? prismaClient : undefined", and
\* recordSaleShipment does the same.  Whether the client that
\* prisma.$transaction hands its callback is an instance of the generated
\* PrismaClient class is decided by the Prisma runtime of the build, so both
\* answers are taken: TRUE keeps the upsert in the caller's transaction,
\* FALSE passes undefined, and adjustStockLevel then runs the upsert on the
\* global client, outside the transaction and committed at once.
TxClientIsPrismaClient == BOOLEAN

\* ------------------------------------------------- purchaseOrder.service
\* calculateOverallPOStatus over the items of one order.
TotalOrdered(items) ==
    SumOver([i \in DOMAIN items |-> items[i].quantityOrdered], DOMAIN items)

TotalReceived(items) ==
    SumOver([i \in DOMAIN items |-> items[i].quantityReceived], DOMAIN items)

CalculateOverallPOStatusStrict(items) ==
    IF DOMAIN items = {} THEN "PENDING"
    ELSE IF TotalReceived(items) = 0 THEN "PENDING"
    ELSE IF TotalReceived(items) <= TotalOrdered(items) THEN "PARTIAL"
    ELSE "RECEIVED"

CalculateOverallPOStatusResets(items) ==
    IF DOMAIN items = {} THEN "PENDING"
    ELSE IF TotalReceived(items) < TotalOrdered(items) THEN "PENDING"
    ELSE "RECEIVED"

CalculateOverallPOStatus(items) ==
    IF DOMAIN items = {} THEN "PENDING"
    ELSE IF TotalReceived(items) = 0 THEN "PENDING"
    ELSE IF TotalReceived(items) < TotalOrdered(items) THEN "PARTIAL"
    ELSE "RECEIVED"

\* purchaseOrderItem.findMany({ where: { purchaseOrderId } }) on a table.
ItemsOfPO(purchaseOrderItem, purchaseOrderId) ==
    LET ids == {i \in PoItemIds : purchaseOrderItem[i].purchaseOrderId = purchaseOrderId}
    IN [i \in ids |-> purchaseOrderItem[i]]

AllowedReceiveStatuses == {"APPROVED", "PROCESSING", "PARTIAL", "RECEIVED"}

\* newTotalReceived > poItem.quantityOrdered
ExceedsOrderedNever(fulfilled, quantity, ordered) == FALSE

ExceedsOrdered(fulfilled, quantity, ordered) == fulfilled + quantity > ordered

\* updatePurchaseOrderStatus: allowedTransitions[po.status]?.includes(status)
AllowedTransitionsReopen(from) ==
    CASE from = "PENDING" -> {"APPROVED", "CANCELLED"}
      [] from = "APPROVED" -> {"PROCESSING", "CANCELLED", "RECEIVED", "PARTIAL"}
      [] from = "PROCESSING" -> {"RECEIVED", "PARTIAL", "CANCELLED"}
      [] from = "PARTIAL" -> {"RECEIVED", "COMPLETED", "CANCELLED"}
      [] from = "RECEIVED" -> {"COMPLETED", "CANCELLED"}
      [] from = "CANCELLED" -> {"PENDING"}
      [] OTHER -> {}

AllowedTransitions(from) ==
    CASE from = "PENDING" -> {"APPROVED", "CANCELLED"}
      [] from = "APPROVED" -> {"PROCESSING", "CANCELLED", "RECEIVED", "PARTIAL"}
      [] from = "PROCESSING" -> {"RECEIVED", "PARTIAL", "CANCELLED"}
      [] from = "PARTIAL" -> {"RECEIVED", "COMPLETED", "CANCELLED"}
      [] from = "RECEIVED" -> {"COMPLETED", "CANCELLED"}
      [] OTHER -> {}

TerminalStatuses == {"COMPLETED", "CANCELLED"}

\* receivePurchaseOrderItem, the reads: the quantity check, then inside the
\* new transaction the item, the order, the status gate, the remaining
\* quantity and the destination.  po and poItem stay what was read here.
ReceiveRead(p, purchaseOrderId, itemId, quantityReceived, destinationLocationId) ==
    /\ CanCall(p)
    /\ LET args == [NoArgs EXCEPT !.orderId = purchaseOrderId, !.itemId = itemId,
                                  !.quantity = quantityReceived,
                                  !.locationId = destinationLocationId]
           poItem == db.purchaseOrderItem[itemId]
           po == db.purchaseOrder[purchaseOrderId]
           error ==
               IF quantityReceived <= 0 THEN "BadRequestError"
               ELSE IF poItem.purchaseOrderId # purchaseOrderId THEN "NotFoundError"
               ELSE IF po.status \notin AllowedReceiveStatuses THEN "ConflictError"
               ELSE IF ExceedsOrdered(poItem.quantityReceived, quantityReceived,
                                      poItem.quantityOrdered) THEN "BadRequestError"
               ELSE IF destinationLocationId \notin Locations THEN "NotFoundError"
               ELSE "none"
       IN /\ error = "none" => RoomFor(1, 1)
          /\ proc' = [proc EXCEPT ![p] =
                IF error # "none"
                THEN Returned("receivePurchaseOrderItem", args, error, db)
                ELSE [Idle(db) EXCEPT
                        !.pc = "receiveUpdateItem", !.op = "receivePurchaseOrderItem",
                        !.args = [args EXCEPT !.productId = poItem.productId],
                        !.local = [status |-> po.status]]]
          /\ UNCHANGED db

\* tx.purchaseOrderItem.update({ quantityReceived: { increment } }): waits for
\* the row, and increments what is committed then.
ReceiveUpdateItem(p) ==
    LET r == proc[p]
        a == r.args
    IN /\ r.pc = "receiveUpdateItem"
       /\ ~LockedByOther(p, RowLock("PurchaseOrderItem", a.itemId))
       /\ proc' = [proc EXCEPT ![p] =
             [r EXCEPT !.pc = "receiveStock",
                       !.view.purchaseOrderItem[a.itemId].quantityReceived =
                           db.purchaseOrderItem[a.itemId].quantityReceived + a.quantity,
                       !.locks = @ \cup {RowLock("PurchaseOrderItem", a.itemId)}]]
       /\ UNCHANGED db

\* recordPurchaseReceipt: adjustStockLevel(destination, +quantity, false) on
\* the client it is handed, then transaction.create inside the transaction.
ReceiveStock(p) ==
    LET r == proc[p]
        a == r.args
    IN /\ r.pc = "receiveStock"
       /\ ~LockedByOther(p, StockLock(a.productId, a.locationId))
       /\ \E inTx \in TxClientIsPrismaClient, createFails \in BOOLEAN,
             created \in NotificationCreated :
            LET adj == AdjustStockLevel(IF inTx THEN CurrentStock(db, r) ELSE db.stockLevel,
                                        a.productId, a.locationId, a.quantity, FALSE)
                row == TransactionRow("PURCHASE", a.productId, a.quantity, Null,
                                      a.locationId, a.orderId, Null)
                error == IF adj.error # "none" THEN adj.error
                         ELSE IF createFails THEN "DbError" ELSE "none"
                emitted == r.emitted \cup LowStock(adj, a.productId, a.locationId, created)
            IN /\ ~inTx => StockInBound(adj.written, a.productId, a.locationId)
               /\ LET upserted == IF inTx \/ ~adj.ran THEN db
                                   ELSE [db EXCEPT !.stockLevel = adj.written]
                  IN db' = IF error # "none" THEN Rollback(upserted, r) ELSE upserted
               /\ proc' = [proc EXCEPT ![p] =
                     IF error # "none"
                     THEN ReturnedWith(r.op, a, error, r.pre, emitted, {})
                     ELSE [r EXCEPT
                             !.pc = "receiveStatus",
                             !.emitted = emitted,
                             !.view.stockLevel = IF inTx THEN adj.written ELSE @,
                             !.locks = IF inTx
                                       THEN @ \cup {StockLock(a.productId, a.locationId)}
                                       ELSE @,
                             !.newTx = Insert(@, row)]]

\* receivePurchaseOrderItem from the recalculation on: findMany of the
\* order's items, calculateOverallPOStatus, the status update when it differs
\* from the po read at the start, logAction, and the commit.
ReceiveStatus(p) ==
    LET r == proc[p]
        a == r.args
        allItems == ItemsOfPO(r.view.purchaseOrderItem, a.orderId)
        newOverallStatus == CalculateOverallPOStatus(allItems)
        update == r.local.status # newOverallStatus
    IN /\ r.pc = "receiveStatus"
       /\ update => ~LockedByOther(p, RowLock("PurchaseOrder", a.orderId))
       /\ \E auditFails \in AuditCreateFails :
            LET error == LogActionError(auditFails)
                done == [r EXCEPT
                            !.view.purchaseOrder[a.orderId].status =
                                IF update THEN newOverallStatus ELSE @,
                            !.locks = IF update
                                      THEN @ \cup {RowLock("PurchaseOrder", a.orderId)} ELSE @,
                            !.newAudit = TryLogAction(@, "RECEIVE_PO_ITEM", auditFails)]
            IN /\ db' = IF error = "none" THEN Commit(db, done) ELSE Rollback(db, r)
               /\ proc' = [proc EXCEPT ![p] =
                     ReturnedWith(r.op, a, error, r.pre, r.emitted, LoggedErrors(auditFails))]

\* updatePurchaseOrderStatus, the read and the transition check.  No
\* transaction: each statement commits by itself.
UpdatePurchaseOrderStatusRead(p, id, status) ==
    /\ CanCall(p)
    /\ LET args == [NoArgs EXCEPT !.orderId = id, !.status = status]
           po == db.purchaseOrder[id]
           error == IF status \notin AllowedTransitions(po.status)
                    THEN "BadRequestError" ELSE "none"
       IN /\ error = "none" => RoomFor(0, 1)
          /\ proc' = [proc EXCEPT ![p] =
                IF error # "none"
                THEN Returned("updatePurchaseOrderStatus", args, error, db)
                ELSE [Idle(db) EXCEPT
                        !.pc = "updatePurchaseOrder", !.op = "updatePurchaseOrderStatus",
                        !.args = args, !.local = [status |-> po.status]]]
          /\ UNCHANGED db

\* prisma.purchaseOrder.update({ where: { id }, data: { status } }).
PurchaseOrderUpdateResetsItems(d, id, status) ==
    [d EXCEPT !.purchaseOrder[id].status = status,
              !.purchaseOrderItem = [i \in DOMAIN @ |->
                  IF @[i].purchaseOrderId = id /\ status = "CANCELLED"
                  THEN [@[i] EXCEPT !.quantityReceived = 0] ELSE @[i]]]

PurchaseOrderUpdate(d, id, status) == [d EXCEPT !.purchaseOrder[id].status = status]

\* updatePurchaseOrderStatus, the update of the header and the audit entry.
UpdatePurchaseOrderStatusWrite(p) ==
    LET r == proc[p]
        a == r.args
    IN /\ r.pc = "updatePurchaseOrder"
       /\ ~LockedByOther(p, RowLock("PurchaseOrder", a.orderId))
       /\ \E auditFails \in AuditCreateFails, created \in NotificationCreated :
            /\ db' = [PurchaseOrderUpdate(db, a.orderId, a.status) EXCEPT
                        !.auditLog = TryLogAction(@, "UPDATE_PURCHASE_ORDER_STATUS", auditFails)]
            /\ proc' = [proc EXCEPT ![p] =
                  ReturnedWith(r.op, a, LogActionError(auditFails), r.pre,
                               {OrderStatusTrigger(a.orderId, a.status, created)},
                               LoggedErrors(auditFails))]

\* ---------------------------------------------------- salesOrder.service
TotalShipped(items) ==
    SumOver([i \in DOMAIN items |-> items[i].quantityShipped], DOMAIN items)

\* calculateOverallSOStatus over the items of one order.
CalculateOverallSOStatus(items) ==
    IF DOMAIN items = {} THEN "PENDING"
    ELSE IF TotalShipped(items) = 0 THEN "PENDING"
    ELSE IF TotalShipped(items) < TotalOrdered(items) THEN "PARTIAL"
    ELSE "SHIPPED"

ItemsOfSO(salesOrderItem, salesOrderId) ==
    LET ids == {i \in SoItemIds : salesOrderItem[i].salesOrderId = salesOrderId}
    IN [i \in ids |-> salesOrderItem[i]]

AllowedShipStatusesWithPending == {"PENDING", "APPROVED", "PROCESSING", "PARTIAL", "SHIPPED"}

AllowedShipStatuses == {"APPROVED", "PROCESSING", "PARTIAL", "SHIPPED"}

\* quantityShipped > remainingToShip
ExceedsRemaining(shipped, quantity, ordered) == quantity > ordered - shipped

\* shipSalesOrderItem, the reads: the item, the order, the status gate, the
\* remaining quantity and the source location.
ShipRead(p, salesOrderId, itemId, quantityShipped, sourceLocationId) ==
    /\ CanCall(p)
    /\ LET args == [NoArgs EXCEPT !.orderId = salesOrderId, !.itemId = itemId,
                                  !.quantity = quantityShipped,
                                  !.locationId = sourceLocationId]
           soItem == db.salesOrderItem[itemId]
           so == db.salesOrder[salesOrderId]
           error ==
               IF quantityShipped <= 0 THEN "BadRequestError"
               ELSE IF soItem.salesOrderId # salesOrderId THEN "NotFoundError"
               ELSE IF so.status \notin AllowedShipStatuses THEN "ConflictError"
               ELSE IF ExceedsRemaining(soItem.quantityShipped, quantityShipped,
                                        soItem.quantityOrdered) THEN "BadRequestError"
               ELSE IF sourceLocationId \notin Locations THEN "NotFoundError"
               ELSE "none"
       IN /\ error = "none" => RoomFor(1, 1)
          /\ proc' = [proc EXCEPT ![p] =
                IF error # "none"
                THEN Returned("shipSalesOrderItem", args, error, db)
                ELSE [Idle(db) EXCEPT
                        !.pc = "shipStock", !.op = "shipSalesOrderItem",
                        !.args = [args EXCEPT !.productId = soItem.productId],
                        !.local = [status |-> so.status]]]
          /\ UNCHANGED db

\* recordSaleShipment: adjustStockLevel(source, -quantity, true) on the client
\* it is handed, then transaction.create inside the transaction.
ShipStock(p) ==
    LET r == proc[p]
        a == r.args
    IN /\ r.pc = "shipStock"
       /\ ~LockedByOther(p, StockLock(a.productId, a.locationId))
       /\ \E inTx \in TxClientIsPrismaClient, createFails \in BOOLEAN,
             created \in NotificationCreated :
            LET adj == AdjustStockLevel(IF inTx THEN CurrentStock(db, r) ELSE db.stockLevel,
                                        a.productId, a.locationId, -a.quantity, TRUE)
                row == TransactionRow("SALE", a.productId, -a.quantity, a.locationId,
                                      Null, Null, a.orderId)
                error == IF adj.error # "none" THEN adj.error
                         ELSE IF createFails THEN "DbError" ELSE "none"
                emitted == r.emitted \cup LowStock(adj, a.productId, a.locationId, created)
            IN /\ ~inTx => StockInBound(adj.written, a.productId, a.locationId)
               /\ LET upserted == IF inTx \/ ~adj.ran THEN db
                                   ELSE [db EXCEPT !.stockLevel = adj.written]
                  IN db' = IF error # "none" THEN Rollback(upserted, r) ELSE upserted
               /\ proc' = [proc EXCEPT ![p] =
                     IF error # "none"
                     THEN ReturnedWith(r.op, a, error, r.pre, emitted, {})
                     ELSE [r EXCEPT
                             !.pc = "shipUpdateItem",
                             !.emitted = emitted,
                             !.view.stockLevel = IF inTx THEN adj.written ELSE @,
                             !.locks = IF inTx
                                       THEN @ \cup {StockLock(a.productId, a.locationId)}
                                       ELSE @,
                             !.newTx = Insert(@, row)]]

\* tx.salesOrderItem.update({ quantityShipped: { increment } }).
ShipUpdateItem(p) ==
    LET r == proc[p]
        a == r.args
    IN /\ r.pc = "shipUpdateItem"
       /\ ~LockedByOther(p, RowLock("SalesOrderItem", a.itemId))
       /\ proc' = [proc EXCEPT ![p] =
             [r EXCEPT !.pc = "shipStatus",
                       !.view.salesOrderItem[a.itemId].quantityShipped =
                           db.salesOrderItem[a.itemId].quantityShipped + a.quantity,
                       !.locks = @ \cup {RowLock("SalesOrderItem", a.itemId)}]]
       /\ UNCHANGED db

\* shipSalesOrderItem from the recalculation on: findMany, the status update
\* unless the so read at the start was terminal, logAction, and the commit.
ShipStatus(p) ==
    LET r == proc[p]
        a == r.args
        allItems == ItemsOfSO(r.view.salesOrderItem, a.orderId)
        newOverallStatus == CalculateOverallSOStatus(allItems)
        update == r.local.status # newOverallStatus /\ r.local.status \notin TerminalStatuses
    IN /\ r.pc = "shipStatus"
       /\ update => ~LockedByOther(p, RowLock("SalesOrder", a.orderId))
       /\ \E auditFails \in AuditCreateFails :
            LET error == LogActionError(auditFails)
                done == [r EXCEPT
                            !.view.salesOrder[a.orderId].status =
                                IF update THEN newOverallStatus ELSE @,
                            !.locks = IF update
                                      THEN @ \cup {RowLock("SalesOrder", a.orderId)} ELSE @,
                            !.newAudit = TryLogAction(@, "SHIP_SO_ITEM", auditFails)]
            IN /\ db' = IF error = "none" THEN Commit(db, done) ELSE Rollback(db, r)
               /\ proc' = [proc EXCEPT ![p] =
                     ReturnedWith(r.op, a, error, r.pre, r.emitted, LoggedErrors(auditFails))]

\* updateSalesOrderStatus, the read and the check that the order is not
\* CANCELLED or COMPLETED.  No transaction.
UpdateSalesOrderStatusRead(p, id, status) ==
    /\ CanCall(p)
    /\ LET args == [NoArgs EXCEPT !.orderId = id, !.status = status]
           so == db.salesOrder[id]
           error == IF so.status \in TerminalStatuses /\ status # so.status
                    THEN "BadRequestError" ELSE "none"
       IN /\ error = "none" => RoomFor(0, 1)
          /\ proc' = [proc EXCEPT ![p] =
                IF error # "none"
                THEN Returned("updateSalesOrderStatus", args, error, db)
                ELSE [Idle(db) EXCEPT
                        !.pc = "updateSalesOrder", !.op = "updateSalesOrderStatus",
                        !.args = args, !.local = [status |-> so.status]]]
          /\ UNCHANGED db

\* updateSalesOrderStatus, the update of the header and the audit entry.
UpdateSalesOrderStatusWrite(p) ==
    LET r == proc[p]
        a == r.args
    IN /\ r.pc = "updateSalesOrder"
       /\ ~LockedByOther(p, RowLock("SalesOrder", a.orderId))
       /\ \E auditFails \in AuditCreateFails, created \in NotificationCreated :
            /\ db' = [db EXCEPT
                        !.salesOrder[a.orderId].status = a.status,
                        !.auditLog = TryLogAction(@, "UPDATE_SALES_ORDER_STATUS", auditFails)]
            /\ proc' = [proc EXCEPT ![p] =
                  ReturnedWith(r.op, a, LogActionError(auditFails), r.pre,
                               {OrderStatusTrigger(a.orderId, a.status, created)},
                               LoggedErrors(auditFails))]

\* ------------------------------------------------------ order creation
\* The ids the database gives the orders it creates, in this order, and the
\* ids of the items of an order.
NewPoIds == <<"PO1", "PO2">>
NewSoIds == <<"SO1", "SO2">>

Range(seq) == {seq[i] : i \in DOMAIN seq}

IsFull(table, ids) == Range(ids) \subseteq DOMAIN table

\* One more order stays within the bound.
RoomForOrder ==
    Cardinality(DOMAIN db.purchaseOrder) + Cardinality(DOMAIN db.salesOrder) < MaxOrders

NewId(table, ids) == ids[CHOOSE i \in DOMAIN ids :
                            /\ ids[i] \notin DOMAIN table
                            /\ \A j \in 1..(i - 1) : ids[j] \in DOMAIN table]

ItemId(orderId, i) == orderId \o "." \o ToString(i)

\* tx.product.findMany({ where: { id: { in: productIds } } }): the rows of
\* the Product table whose id is among productIds, each once.
FindProducts(product, items) ==
    {id \in DOMAIN product : \E i \in DOMAIN items : items[i].productId = id}

\* products.length !== productIds.length
ProductsNotFound(product, items) == Cardinality(FindProducts(product, items)) # Len(items)

\* findUnique({ where: { orderNumber } }) on the headers of a table.
OrderNumberExists(orders, orderNumber) ==
    \E o \in DOMAIN orders : orders[o].orderNumber = orderNumber

\* The rows of the nested items: { create: items.map(...) }.
ItemRows(orderKey, fulfilledKey, id, items) ==
    [k \in {ItemId(id, i) : i \in DOMAIN items} |->
        LET i == CHOOSE j \in DOMAIN items : ItemId(id, j) = k
        IN (orderKey :> id) @@ (fulfilledKey :> 0)
           @@ [productId |-> items[i].productId, quantityOrdered |-> items[i].quantityOrdered]]

\* createPurchaseOrder: one transaction of the supplier and product checks,
\* the order number, the create of the header with its items, and logAction.
CreatePurchaseOrder(p, supplierId, orderNumber, items) ==
    /\ CanCall(p)
    /\ ~IsFull(db.purchaseOrder, NewPoIds)
    /\ RoomForOrder
    /\ LET args == [NoArgs EXCEPT !.supplierId = supplierId, !.orderNumber = orderNumber,
                                  !.items = items]
           id == NewId(db.purchaseOrder, NewPoIds)
           finalOrderNumber == IF orderNumber = Null THEN "PO-" \o id ELSE orderNumber
           checked ==
               IF supplierId \notin db.supplier THEN "NotFoundError"
               ELSE IF ProductsNotFound(db.product, items) THEN "NotFoundError"
               ELSE IF orderNumber # Null /\ OrderNumberExists(db.purchaseOrder, orderNumber)
               THEN "ConflictError"
               ELSE "none"
       IN \E createFails \in BOOLEAN, auditFails \in AuditCreateFails :
            LET audited == checked = "none" /\ ~createFails
                error == IF checked # "none" THEN checked
                         ELSE IF createFails THEN "DbError" ELSE LogActionError(auditFails)
            IN /\ audited => RoomFor(0, 1)
               /\ db' = IF error = "none"
                        THEN [db EXCEPT
                                !.purchaseOrder =
                                    @ @@ (id :> [status |-> "PENDING",
                                                 orderNumber |-> finalOrderNumber]),
                                !.purchaseOrderItem =
                                    @ @@ ItemRows("purchaseOrderId", "quantityReceived", id, items),
                                !.auditLog = TryLogAction(@, "CREATE_PURCHASE_ORDER", auditFails)]
                        ELSE db
               /\ proc' = [proc EXCEPT ![p] =
                     ReturnedWith("createPurchaseOrder", args, error, db, {},
                                  IF audited THEN LoggedErrors(auditFails) ELSE {})]

\* createSalesOrder: the same without a supplier.
CreateSalesOrder(p, orderNumber, items) ==
    /\ CanCall(p)
    /\ ~IsFull(db.salesOrder, NewSoIds)
    /\ RoomForOrder
    /\ LET args == [NoArgs EXCEPT !.orderNumber = orderNumber, !.items = items]
           id == NewId(db.salesOrder, NewSoIds)
           finalOrderNumber == IF orderNumber = Null THEN "SO-" \o id ELSE orderNumber
           checked ==
               IF ProductsNotFound(db.product, items) THEN "NotFoundError"
               ELSE IF orderNumber # Null /\ OrderNumberExists(db.salesOrder, orderNumber)
               THEN "ConflictError"
               ELSE "none"
       IN \E createFails \in BOOLEAN, auditFails \in AuditCreateFails :
            LET audited == checked = "none" /\ ~createFails
                error == IF checked # "none" THEN checked
                         ELSE IF createFails THEN "DbError" ELSE LogActionError(auditFails)
            IN /\ audited => RoomFor(0, 1)
               /\ db' = IF error = "none"
                        THEN [db EXCEPT
                                !.salesOrder =
                                    @ @@ (id :> [status |-> "PENDING",
                                                 orderNumber |-> finalOrderNumber]),
                                !.salesOrderItem =
                                    @ @@ ItemRows("salesOrderId", "quantityShipped", id, items),
                                !.auditLog = TryLogAction(@, "CREATE_SALES_ORDER", auditFails)]
                        ELSE db
               /\ proc' = [proc EXCEPT ![p] =
                     ReturnedWith("createSalesOrder", args, error, db, {},
                                  IF audited THEN LoggedErrors(auditFails) ELSE {})]

\* ------------------------------------------------------- product.service
\* The four counts deleteProduct takes in one batch: the StockLevel rows, the
\* Transaction rows, the purchase order items and the sales order items of
\* the product.
DependencyCountsWithoutOrders(d, id) ==
    [stock |-> Cardinality({k \in DOMAIN d.stockLevel : k[1] = id /\ d.stockLevel[k].exists}),
     transaction |-> BagCardinality([row \in {r \in BagToSet(d.transaction) : r.productId = id}
                                        |-> CopiesIn(row, d.transaction)]),
     poItem |-> 0,
     soItem |-> 0]

DependencyCounts(d, id) ==
    [stock |-> Cardinality({k \in DOMAIN d.stockLevel : k[1] = id /\ d.stockLevel[k].exists}),
     transaction |-> BagCardinality([row \in {r \in BagToSet(d.transaction) : r.productId = id}
                                        |-> CopiesIn(row, d.transaction)]),
     poItem |-> Cardinality({i \in DOMAIN d.purchaseOrderItem :
                                d.purchaseOrderItem[i].productId = id}),
     soItem |-> Cardinality({i \in DOMAIN d.salesOrderItem :
                                d.salesOrderItem[i].productId = id})]

\* A row of a table whose relation to Product restricts the delete names the
\* product.
RestrictsDelete(d, id) ==
    \/ \E row \in BagToSet(d.transaction) : row.productId = id
    \/ \E i \in DOMAIN d.purchaseOrderItem : d.purchaseOrderItem[i].productId = id
    \/ \E i \in DOMAIN d.salesOrderItem : d.salesOrderItem[i].productId = id

\* prisma.product.delete({ where: { id } }): the row goes, and with it the
\* StockLevel rows of the product (onDelete: Cascade).
DeleteProductRow(d, id) ==
    [d EXCEPT !.product = [i \in DOMAIN @ \ {id} |-> @[i]],
              !.stockLevel = [k \in DOMAIN @ |-> IF k[1] = id THEN NoStockLevel ELSE @[k]]]

\* deleteProduct, the dependency counts and the four checks on them.
DeleteProductCount(p, id) ==
    /\ CanCall(p)
    /\ LET args == [NoArgs EXCEPT !.productId = id]
           counts == DependencyCounts(db, id)
           error == IF counts.stock > 0 \/ counts.transaction > 0
                       \/ counts.poItem > 0 \/ counts.soItem > 0
                    THEN "ConflictError" ELSE "none"
       IN /\ proc' = [proc EXCEPT ![p] =
                IF error # "none"
                THEN Returned("deleteProduct", args, error, db)
                ELSE [Idle(db) EXCEPT !.pc = "deleteProduct", !.op = "deleteProduct",
                                      !.args = args]]
          /\ UNCHANGED db

\* deleteProduct, the delete: P2025 becomes NotFoundError, any other error is
\* thrown again.
DeleteProductDelete(p) ==
    LET r == proc[p]
        id == r.args.productId
        error == IF id \notin DOMAIN db.product THEN "NotFoundError"
                 ELSE IF RestrictsDelete(db, id) THEN "DbError"
                 ELSE "none"
    IN /\ r.pc = "deleteProduct"
       /\ db' = IF error = "none" THEN DeleteProductRow(db, id) ELSE db
       /\ proc' = [proc EXCEPT ![p] = Returned(r.op, r.args, error, r.pre)]

\* The response is sent; the process is free for the next request.
Respond(p) ==
    /\ proc[p].pc = "done"
    /\ proc' = [proc EXCEPT ![p] = Idle(db)]
    /\ UNCHANGED db

\* ------------------------------------------------------------------ init
\* No stock and no movement yet; product P1 has reorderLevel 1; one purchase
\* order and one sales order, PENDING, of two items each.  degraded tells
\* whether inserts into the AuditLog and Notification tables may fail.
InitDb ==
    [degraded |-> FALSE,
     product |-> [i \in Products |-> [reorderLevel |-> 1]],
     stockLevel |-> [k \in StockKeys |-> NoStockLevel],
     transaction |-> EmptyBag,
     auditLog |-> EmptyBag,
     supplier |-> Suppliers,
     purchaseOrder |-> [o \in PoIds |-> [status |-> "PENDING", orderNumber |-> "PO-" \o o]],
     purchaseOrderItem |->
        [i \in PoItemIds |->
            [purchaseOrderId |-> "PO1", productId |-> "P1",
             quantityOrdered |-> IF i = "A1" THEN 2 ELSE 1, quantityReceived |-> 0]],
     salesOrder |-> [o \in SoIds |-> [status |-> "PENDING", orderNumber |-> "SO-" \o o]],
     salesOrderItem |->
        [i \in SoItemIds |->
            [salesOrderId |-> "SO1", productId |-> "P1",
             quantityOrdered |-> IF i = "B1" THEN 2 ELSE 1, quantityShipped |-> 0]]]

Init ==
    /\ db = InitDb
    /\ proc = [p \in Procs |-> Idle(InitDb)]

\* A request arrives at process p: the first step of its handler.
Call(p) ==
    \/ \E productId \in Products, locationId \in LocationIds, quantityChange \in Quantities,
          type \in AdjustmentTypes :
            RecordAdjustment(p, productId, locationId, quantityChange, type)
    \/ \E productId \in Products, sourceLocationId \in LocationIds,
          destinationLocationId \in LocationIds, quantity \in Quantities :
            RecordTransferOut(p, productId, sourceLocationId, destinationLocationId, quantity)
    \/ \E purchaseOrderId \in PoIds, itemId \in PoItemIds, quantityReceived \in Quantities,
          destinationLocationId \in LocationIds :
            ReceiveRead(p, purchaseOrderId, itemId, quantityReceived, destinationLocationId)
    \/ \E id \in PoIds, status \in OrderStatus : UpdatePurchaseOrderStatusRead(p, id, status)
    \/ \E salesOrderId \in SoIds, itemId \in SoItemIds, quantityShipped \in Quantities,
          sourceLocationId \in LocationIds :
            ShipRead(p, salesOrderId, itemId, quantityShipped, sourceLocationId)
    \/ \E id \in SoIds, status \in OrderStatus : UpdateSalesOrderStatusRead(p, id, status)

\* The handler process p is in runs its next statements.
Step(p) ==
    \/ RecordTransferIn(p)
    \/ ReceiveUpdateItem(p)
    \/ ReceiveStock(p)
    \/ ReceiveStatus(p)
    \/ UpdatePurchaseOrderStatusWrite(p)
    \/ ShipStock(p)
    \/ ShipUpdateItem(p)
    \/ ShipStatus(p)
    \/ UpdateSalesOrderStatusWrite(p)

\* One process serves one request after the other.
Next == Call(1) \/ Step(1) \/ Respond(1)

Spec == Init /\ [][Next]_vars

\* Two requests served at the same time, one by each process, on a database
\* whose purchase order or sales order has been approved (one
\* updatePurchaseOrderStatus or updateSalesOrderStatus after Init).
ApprovedDb(order, id, action) ==
    [InitDb EXCEPT ![order][id].status = "APPROVED",
                   !.auditLog = LogAction(EmptyBag, action)]

\* The database with the StockLevel row the seed script creates: MaxStock
\* units of P1 at L1 and no Transaction row for them.
SeededStock(d) ==
    [d EXCEPT !.stockLevel[<<"P1", "L1">>] = [exists |-> TRUE, quantity |-> MaxStock]]

ConcurrentInit ==
    /\ db \in {ApprovedDb("purchaseOrder", "PO1", "UPDATE_PURCHASE_ORDER_STATUS"),
               ApprovedDb("salesOrder", "SO1", "UPDATE_SALES_ORDER_STATUS"),
               SeededStock(InitDb),
               SeededStock(ApprovedDb("salesOrder", "SO1", "UPDATE_SALES_ORDER_STATUS"))}
    /\ proc = [p \in Procs |-> Idle(db)]

ConcurrentNext == \E p \in Procs : Call(p) \/ Step(p)

ConcurrentSpec == ConcurrentInit /\ [][ConcurrentNext]_vars

\* adjustStockLevel by itself, call after call, for every quantityChange from
\* -MaxQuantity to MaxQuantity, 0 included, and both values of checkNegative,
\* on a product whose reorderLevel is 0 (not set) or more.
ReorderLevels == 0..MaxStock

AdjustInit ==
    /\ db \in {[InitDb EXCEPT !.product = [i \in Products |-> [reorderLevel |-> level]]] :
                  level \in ReorderLevels}
    /\ proc = [p \in Procs |-> Idle(db)]

AdjustNext ==
    \/ \E productId \in Products, locationId \in LocationIds,
          quantityChange \in -MaxQuantity..MaxQuantity, checkNegative \in BOOLEAN :
            AdjustStock(1, productId, locationId, quantityChange, checkNegative)
    \/ Respond(1)

AdjustSpec == AdjustInit /\ [][AdjustNext]_vars

\* One request on a degraded database, where an insert into AuditLog or
\* Notification may fail: the database as created, or the one after
\* recordAdjustment(ADJUSTMENT_IN, MaxStock units of P1 at L1) and the approval
\* of both orders, the audit entries of the three calls lost.
StockedDb ==
    [InitDb EXCEPT
        !.degraded = TRUE,
        !.stockLevel[<<"P1", "L1">>] = [exists |-> TRUE, quantity |-> MaxStock],
        !.transaction = Insert(EmptyBag, TransactionRow("ADJUSTMENT_IN", "P1", MaxStock,
                                                        Null, "L1", Null, Null)),
        !.purchaseOrder["PO1"].status = "APPROVED",
        !.salesOrder["SO1"].status = "APPROVED"]

DegradedInit ==
    /\ db \in {[InitDb EXCEPT !.degraded = TRUE], StockedDb}
    /\ proc = [p \in Procs |-> Idle(db)]

DegradedNext == Call(1) \/ Step(1)

DegradedSpec == DegradedInit /\ [][DegradedNext]_vars

\* The creation of orders, call after call, on a database with two products
\* and no order yet.  An order has one or two lines; the order number is
\* left out or given.
CatalogProducts == {"P1", "P2"}
OrderNumbers == {"N1"}
MaxLines == 2

Lines == [productId : CatalogProducts \cup {NoProduct}, quantityOrdered : Quantities]

LineItems == UNION {[1..n -> Lines] : n \in 1..MaxLines}

EmptyDb ==
    [InitDb EXCEPT
        !.product = [i \in CatalogProducts |-> [reorderLevel |-> 0]],
        !.purchaseOrder = <<>>, !.purchaseOrderItem = <<>>,
        !.salesOrder = <<>>, !.salesOrderItem = <<>>]

CreateInit ==
    /\ db = EmptyDb
    /\ proc = [p \in Procs |-> Idle(db)]

CreateNext ==
    \/ \E supplierId \in Suppliers \cup {NoSupplier}, orderNumber \in OrderNumbers \cup {Null},
          items \in LineItems :
            CreatePurchaseOrder(1, supplierId, orderNumber, items)
    \/ \E orderNumber \in OrderNumbers \cup {Null}, items \in LineItems :
            CreateSalesOrder(1, orderNumber, items)
    \/ Respond(1)

CreateSpec == CreateInit /\ [][CreateNext]_vars

\* The deletion of products among the calls that refer to them: the creation
\* of orders of one line, adjustments of one unit of P1, and deleteProduct
\* for a product of the catalog or one that does not exist, call after call
\* on a database with two products and nothing else.
SingleLines == {<<line>> : line \in {l \in Lines : l.quantityOrdered = 1}}

DeleteNext ==
    \/ \E items \in SingleLines : CreatePurchaseOrder(1, "S1", Null, items)
    \/ \E items \in SingleLines : CreateSalesOrder(1, Null, items)
    \/ \E productId \in Products, locationId \in Locations, type \in AdjustmentTypes :
            RecordAdjustment(1, productId, locationId, 1, type)
    \/ \E id \in CatalogProducts \cup {NoProduct} : DeleteProductCount(1, id)
    \/ DeleteProductDelete(1)
    \/ Respond(1)

DeleteSpec == CreateInit /\ [][DeleteNext]_vars

\* ------------------------------------------------------------ properties
\* Process p has answered a call of op; proc[p].pre is the database the call
\* started on, db the database it left.
Answered(p, op) == proc[p].pc = "done" /\ proc[p].op = op

Succeeded(p) == proc[p].result = "none"

\* The sum of quantityChange over the Transaction rows of the product that
\* concern the location: a row that adds stock counts at its destination, a
\* row that removes stock counts at its source.
LedgerSum(transaction, productId, locationId) ==
    LET rows == {row \in BagToSet(transaction) :
                    /\ row.productId = productId
                    /\ \/ row.quantityChange > 0 /\ row.destinationLocationId = locationId
                       \/ row.quantityChange < 0 /\ row.sourceLocationId = locationId}
    IN SumOver([row \in rows |-> row.quantityChange * CopiesIn(row, transaction)], rows)

TotalQuantity(stockLevel, productId) ==
    SumOver([l \in Locations |-> Quantity(stockLevel, productId, l)], Locations)

\* C1: in every committed state, for every product and location, the
\* StockLevel quantity (0 when no row exists) equals the sum of the
\* quantityChange of the Transaction rows of the product at the location.
LedgerIdentity ==
    \A k \in StockKeys :
        Quantity(db.stockLevel, k[1], k[2]) = LedgerSum(db.transaction, k[1], k[2])

StockMovingOps ==
    {"recordAdjustment", "recordTransfer", "receivePurchaseOrderItem", "shipSalesOrderItem"}

\* C2: when an operation that moves stock has answered, whether it succeeded
\* or failed at any step, the StockLevel table differs from the one the call
\* started on exactly when the Transaction table does.
AtomicPairing ==
    \A p \in Procs :
        (proc[p].pc = "done" /\ proc[p].op \in StockMovingOps) =>
            ((db.stockLevel # proc[p].pre.stockLevel)
                <=> (db.transaction # proc[p].pre.transaction))

\* The call process p has answered is an enforced outbound operation.
EnforcedOutbound(p) ==
    \/ Answered(p, "recordAdjustment") /\ proc[p].args.type = "ADJUSTMENT_OUT"
    \/ Answered(p, "recordTransfer")
    \/ Answered(p, "shipSalesOrderItem")

\* C3: no committed StockLevel quantity is below 0, and an enforced outbound
\* operation (ADJUSTMENT_OUT, transfer, sales shipment) that was rejected
\* leaves the quantity at the location it takes from as it was before the call.
NonNegativeStock ==
    /\ \A k \in StockKeys : db.stockLevel[k].quantity >= 0
    /\ \A p \in Procs :
        (EnforcedOutbound(p) /\ ~Succeeded(p)) =>
            Quantity(db.stockLevel, proc[p].args.productId, proc[p].args.locationId)
                = Quantity(proc[p].pre.stockLevel, proc[p].args.productId,
                           proc[p].args.locationId)

\* recordAdjustment(ADJUSTMENT_OUT) was called for more than the quantity of
\* an existing StockLevel row.
AdjustmentAboveStock(p) ==
    LET a == proc[p].args
        key == <<a.productId, a.locationId>>
    IN /\ Answered(p, "recordAdjustment")
       /\ a.type = "ADJUSTMENT_OUT"
       /\ key \in StockKeys
       /\ proc[p].pre.stockLevel[key].exists
       /\ a.quantity > proc[p].pre.stockLevel[key].quantity

\* C4: an ADJUSTMENT_OUT for more than the quantity q of the StockLevel row
\* fails with the insufficient-stock error (ConflictError); the quantity is
\* still q, and no Transaction row and no audit entry have been added.
InsufficientStockAdjustment ==
    \A p \in Procs :
        AdjustmentAboveStock(p) =>
            /\ proc[p].result = "ConflictError"
            /\ db.stockLevel = proc[p].pre.stockLevel
            /\ db.transaction = proc[p].pre.transaction
            /\ db.auditLog = proc[p].pre.auditLog

InsufficientStockAdjustmentWitness ==
    /\ AdjustmentAboveStock(1)
    /\ proc[1].pre.stockLevel[<<proc[1].args.productId, proc[1].args.locationId>>].quantity > 0
    /\ proc[1].result = "ConflictError"

\* C5: a recordTransfer that fails after the decrement of the source (the
\* destination location missing, a Transaction insert failing) leaves the
\* source StockLevel, the destination StockLevel and the Transaction table
\* as they were before the call.
TransferAtomicity ==
    \A p \in Procs :
        (Answered(p, "recordTransfer") /\ ~Succeeded(p)) =>
            /\ db.stockLevel = proc[p].pre.stockLevel
            /\ db.transaction = proc[p].pre.transaction
            /\ db.auditLog = proc[p].pre.auditLog

\* A transfer whose decrement of the source went through failed at the
\* destination, which names no Location.
TransferAtomicityWitness ==
    /\ Answered(1, "recordTransfer")
    /\ proc[1].result = "NotFoundError"
    /\ proc[1].args.destinationLocationId = NoLocation
    /\ proc[1].args.locationId \in Locations
    /\ Quantity(proc[1].pre.stockLevel, proc[1].args.productId, proc[1].args.locationId)
         >= proc[1].args.quantity

\* A recordTransfer of no more than the quantity at the source succeeded.
TransferDone(p) ==
    /\ Answered(p, "recordTransfer")
    /\ Succeeded(p)
    /\ proc[p].args.quantity
         <= Quantity(proc[p].pre.stockLevel, proc[p].args.productId, proc[p].args.locationId)

\* C6: a successful recordTransfer of q units from L1 to L2, q not above the
\* quantity at L1, lowers StockLevel(P,L1) by q, raises StockLevel(P,L2) by q
\* (the row exists afterwards), leaves every other StockLevel unchanged and
\* the total of P over all locations the same, and adds exactly two
\* Transaction rows: TRANSFER_OUT with -q and TRANSFER_IN with +q.
TransferEffect ==
    \A p \in Procs :
        TransferDone(p) =>
            LET a == proc[p].args
                pre == proc[p].pre
                added == db.transaction (-) pre.transaction
            IN /\ a.locationId # a.destinationLocationId
               /\ Quantity(db.stockLevel, a.productId, a.locationId)
                    = Quantity(pre.stockLevel, a.productId, a.locationId) - a.quantity
               /\ db.stockLevel[<<a.productId, a.destinationLocationId>>].exists
               /\ Quantity(db.stockLevel, a.productId, a.destinationLocationId)
                    = Quantity(pre.stockLevel, a.productId, a.destinationLocationId) + a.quantity
               /\ \A k \in StockKeys \ {<<a.productId, a.locationId>>,
                                        <<a.productId, a.destinationLocationId>>} :
                    db.stockLevel[k] = pre.stockLevel[k]
               /\ TotalQuantity(db.stockLevel, a.productId)
                    = TotalQuantity(pre.stockLevel, a.productId)
               /\ pre.transaction (+) added = db.transaction
               /\ BagCardinality(added) = 2
               /\ \E outRow \in BagToSet(added), inRow \in BagToSet(added) :
                    /\ outRow.type = "TRANSFER_OUT" /\ outRow.quantityChange = -a.quantity
                    /\ outRow.productId = a.productId
                    /\ outRow.sourceLocationId = a.locationId
                    /\ inRow.type = "TRANSFER_IN" /\ inRow.quantityChange = a.quantity
                    /\ inRow.productId = a.productId
                    /\ inRow.destinationLocationId = a.destinationLocationId

\* The transfer created the row of the destination.
TransferEffectWitness ==
    /\ TransferDone(1)
    /\ ~proc[1].pre.stockLevel[<<proc[1].args.productId,
                                 proc[1].args.destinationLocationId>>].exists

\* C7: every purchase order item has 0 <= quantityReceived <= quantityOrdered
\* and every sales order item 0 <= quantityShipped <= quantityOrdered, in
\* every committed state, two calls running at the same time on one item
\* line included.
FulfillmentBound ==
    /\ \A i \in PoItemIds :
        /\ 0 <= db.purchaseOrderItem[i].quantityReceived
        /\ db.purchaseOrderItem[i].quantityReceived <= db.purchaseOrderItem[i].quantityOrdered
    /\ \A i \in SoItemIds :
        /\ 0 <= db.salesOrderItem[i].quantityShipped
        /\ db.salesOrderItem[i].quantityShipped <= db.salesOrderItem[i].quantityOrdered

\* receivePurchaseOrderItem or shipSalesOrderItem was called for more than
\* what is left of the item.
OverFulfillment(p) ==
    LET a == proc[p].args
        pre == proc[p].pre
    IN \/ /\ Answered(p, "receivePurchaseOrderItem")
          /\ pre.purchaseOrderItem[a.itemId].quantityReceived + a.quantity
               > pre.purchaseOrderItem[a.itemId].quantityOrdered
       \/ /\ Answered(p, "shipSalesOrderItem")
          /\ pre.salesOrderItem[a.itemId].quantityShipped + a.quantity
               > pre.salesOrderItem[a.itemId].quantityOrdered

\* The order of the call was in a status that allows fulfillment.
Fulfillable(p) ==
    IF proc[p].op = "receivePurchaseOrderItem"
    THEN proc[p].pre.purchaseOrder[proc[p].args.orderId].status
            \in {"APPROVED", "PROCESSING", "PARTIAL", "RECEIVED"}
    ELSE proc[p].pre.salesOrder[proc[p].args.orderId].status
            \in {"APPROVED", "PROCESSING", "PARTIAL", "SHIPPED"}

Derived(fulfilled, ordered, full) ==
    IF fulfilled = 0 THEN "PENDING"
    ELSE IF fulfilled < ordered THEN "PARTIAL"
    ELSE full

\* C9: right after a successful receivePurchaseOrderItem or
\* shipSalesOrderItem the stored status of the order is the one derived from
\* all its items: PARTIAL when 0 < fulfilled < ordered, RECEIVED (purchase)
\* or SHIPPED (sales) when fulfilled >= ordered.
DerivedStatus ==
    \A p \in Procs :
        /\ (Answered(p, "receivePurchaseOrderItem") /\ Succeeded(p)) =>
            LET items == {i \in PoItemIds :
                            db.purchaseOrderItem[i].purchaseOrderId = proc[p].args.orderId}
                fulfilled == SumOver([i \in items |-> db.purchaseOrderItem[i].quantityReceived],
                                     items)
                ordered == SumOver([i \in items |-> db.purchaseOrderItem[i].quantityOrdered],
                                   items)
            IN /\ fulfilled > 0
               /\ db.purchaseOrder[proc[p].args.orderId].status
                    = Derived(fulfilled, ordered, "RECEIVED")
        /\ (Answered(p, "shipSalesOrderItem") /\ Succeeded(p)) =>
            LET items == {i \in SoItemIds :
                            db.salesOrderItem[i].salesOrderId = proc[p].args.orderId}
                fulfilled == SumOver([i \in items |-> db.salesOrderItem[i].quantityShipped],
                                     items)
                ordered == SumOver([i \in items |-> db.salesOrderItem[i].quantityOrdered],
                                   items)
            IN /\ fulfilled > 0
               /\ db.salesOrder[proc[p].args.orderId].status
                    = Derived(fulfilled, ordered, "SHIPPED")

\* The receipt of the last item outstanding took the order to RECEIVED.
DerivedStatusWitness ==
    /\ Answered(1, "receivePurchaseOrderItem")
    /\ Succeeded(1)
    /\ proc[1].pre.purchaseOrder[proc[1].args.orderId].status = "PARTIAL"
    /\ db.purchaseOrder[proc[1].args.orderId].status = "RECEIVED"

\* C10: the last step of receivePurchaseOrderItem and of shipSalesOrderItem,
\* which recomputes the status, leaves a COMPLETED or CANCELLED status of
\* the order as it is, also when that status was committed after the call
\* read the order.
TerminalStatusKept ==
    [][\A p \in Procs :
        /\ (/\ proc[p].pc = "receiveStatus"
            /\ proc'[p].pc = "done"
            /\ db.purchaseOrder[proc[p].args.orderId].status \in {"COMPLETED", "CANCELLED"})
           => db'.purchaseOrder[proc[p].args.orderId].status
                = db.purchaseOrder[proc[p].args.orderId].status
        /\ (/\ proc[p].pc = "shipStatus"
            /\ proc'[p].pc = "done"
            /\ db.salesOrder[proc[p].args.orderId].status \in {"COMPLETED", "CANCELLED"})
           => db'.salesOrder[proc[p].args.orderId].status
                = db.salesOrder[proc[p].args.orderId].status]_vars

\* The order the answered call of process p names was COMPLETED or CANCELLED
\* when the call started.
OnTerminalOrder(p) ==
    LET a == proc[p].args
        pre == proc[p].pre
    IN /\ proc[p].pc = "done"
       /\ \/ /\ proc[p].op \in {"updatePurchaseOrderStatus", "receivePurchaseOrderItem"}
             /\ pre.purchaseOrder[a.orderId].status \in {"COMPLETED", "CANCELLED"}
          \/ /\ proc[p].op \in {"updateSalesOrderStatus", "shipSalesOrderItem"}
             /\ pre.salesOrder[a.orderId].status \in {"COMPLETED", "CANCELLED"}

\* The call asks for the status the order already has.
SameStatusAsked(p) ==
    LET a == proc[p].args
        pre == proc[p].pre
    IN \/ proc[p].op = "updatePurchaseOrderStatus"
          /\ a.status = pre.purchaseOrder[a.orderId].status
       \/ proc[p].op = "updateSalesOrderStatus"
          /\ a.status = pre.salesOrder[a.orderId].status

\* A call on an order that is COMPLETED or CANCELLED fails, unless it asks for
\* the status the order has, and the statuses, the item counters and the
\* stock are as before the call.
TerminalCallsFail ==
    \A p \in Procs :
        OnTerminalOrder(p) =>
            /\ ~SameStatusAsked(p) => (~Succeeded(p) /\ db = proc[p].pre)
            /\ db.purchaseOrder = proc[p].pre.purchaseOrder
            /\ db.salesOrder = proc[p].pre.salesOrder
            /\ db.purchaseOrderItem = proc[p].pre.purchaseOrderItem
            /\ db.salesOrderItem = proc[p].pre.salesOrderItem
            /\ db.stockLevel = proc[p].pre.stockLevel

\* No step changes the status of a COMPLETED or CANCELLED order, or a counter
\* of one of its items.
TerminalFrozen ==
    /\ \A o \in PoIds :
        db.purchaseOrder[o].status \in {"COMPLETED", "CANCELLED"} =>
            /\ db'.purchaseOrder[o] = db.purchaseOrder[o]
            /\ \A i \in PoItemIds :
                db.purchaseOrderItem[i].purchaseOrderId = o =>
                    db'.purchaseOrderItem[i] = db.purchaseOrderItem[i]
    /\ \A o \in SoIds :
        db.salesOrder[o].status \in {"COMPLETED", "CANCELLED"} =>
            /\ db'.salesOrder[o] = db.salesOrder[o]
            /\ \A i \in SoItemIds :
                db.salesOrderItem[i].salesOrderId = o =>
                    db'.salesOrderItem[i] = db.salesOrderItem[i]

\* C11: terminal statuses are absorbing.  Once the status of a purchase or
\* sales order is COMPLETED or CANCELLED, every later manual transition to a
\* different status fails, every later receive or ship on its items fails,
\* and the status, the item counters and the stock stay unchanged.
TerminalAbsorbing == []TerminalCallsFail /\ [][TerminalFrozen]_vars

\* A receipt was asked for on a cancelled order with an item partly received,
\* and was refused.
TerminalAbsorbingWitness ==
    /\ Answered(1, "receivePurchaseOrderItem")
    /\ proc[1].pre.purchaseOrder[proc[1].args.orderId].status = "CANCELLED"
    /\ \E i \in PoItemIds :
        /\ proc[1].pre.purchaseOrderItem[i].quantityReceived > 0
        /\ proc[1].pre.purchaseOrderItem[i].quantityReceived
             < proc[1].pre.purchaseOrderItem[i].quantityOrdered
    /\ proc[1].result = "ConflictError"

\* The table of manual transitions the specification gives; full is RECEIVED
\* for a purchase order and SHIPPED for a sales order.
TransitionTable(from, full) ==
    CASE from = "PENDING" -> {"APPROVED", "CANCELLED"}
      [] from = "APPROVED" -> {"PROCESSING", "CANCELLED", full, "PARTIAL"}
      [] from = "PROCESSING" -> {full, "PARTIAL", "CANCELLED"}
      [] from = "PARTIAL" -> {full, "COMPLETED", "CANCELLED"}
      [] from = full -> {"COMPLETED", "CANCELLED"}
      [] OTHER -> {}

\* C12: a manual status transition, of a purchase order or of a sales order,
\* succeeds only along the allowed table; any other requested transition
\* fails and leaves the status unchanged.
ManualTransitionsAllowed ==
    \A p \in Procs :
        LET a == proc[p].args
            pre == proc[p].pre
        IN /\ Answered(p, "updatePurchaseOrderStatus") =>
                IF a.status \in TransitionTable(pre.purchaseOrder[a.orderId].status, "RECEIVED")
                THEN Succeeded(p)
                ELSE /\ ~Succeeded(p)
                     /\ db.purchaseOrder[a.orderId].status
                          = pre.purchaseOrder[a.orderId].status
           /\ Answered(p, "updateSalesOrderStatus") =>
                IF a.status \in TransitionTable(pre.salesOrder[a.orderId].status, "SHIPPED")
                THEN Succeeded(p)
                ELSE /\ ~Succeeded(p)
                     /\ db.salesOrder[a.orderId].status = pre.salesOrder[a.orderId].status

\* receivePurchaseOrderItem or shipSalesOrderItem was called on an order
\* whose status does not allow fulfillment.
NotFulfillable(p) ==
    LET a == proc[p].args
        pre == proc[p].pre
    IN \/ /\ Answered(p, "receivePurchaseOrderItem")
          /\ pre.purchaseOrder[a.orderId].status
               \notin {"APPROVED", "PROCESSING", "PARTIAL", "RECEIVED"}
       \/ /\ Answered(p, "shipSalesOrderItem")
          /\ pre.salesOrder[a.orderId].status
               \notin {"APPROVED", "PROCESSING", "PARTIAL", "SHIPPED"}

\* C13: the status gate of fulfillment.  receivePurchaseOrderItem
\* (shipSalesOrderItem) on an order whose status is not APPROVED, PROCESSING,
\* PARTIAL or RECEIVED (SHIPPED), a PENDING order in particular, fails with
\* ConflictError and changes no item counter, StockLevel, Transaction row or
\* status.
FulfillmentStatusGate ==
    \A p \in Procs :
        NotFulfillable(p) =>
            /\ proc[p].result = "ConflictError"
            /\ db = proc[p].pre

\* A shipment that the stock and the item would allow was refused on a
\* PENDING order.
FulfillmentStatusGateWitness ==
    /\ Answered(1, "shipSalesOrderItem")
    /\ proc[1].pre.salesOrder[proc[1].args.orderId].status = "PENDING"
    /\ proc[1].args.quantity
         <= Quantity(proc[1].pre.stockLevel, "P1", proc[1].args.locationId)
    /\ proc[1].args.quantity
         <= proc[1].pre.salesOrderItem[proc[1].args.itemId].quantityOrdered
    /\ proc[1].result = "ConflictError"

\* C14: shipment is all-or-nothing.  When shipSalesOrderItem asks for more
\* units than StockLevel(product, sourceLocation) holds (0 when there is no
\* row), the call fails, and the StockLevel quantity, the quantityShipped of
\* the item, the order status and the Transaction table are as before.
ShipmentAllOrNothing ==
    \A p \in Procs :
        LET a == proc[p].args
            pre == proc[p].pre
        IN (/\ Answered(p, "shipSalesOrderItem")
            /\ a.locationId \in Locations
            /\ a.quantity > Quantity(pre.stockLevel, a.productId, a.locationId)) =>
                /\ ~Succeeded(p)
                /\ Quantity(db.stockLevel, a.productId, a.locationId)
                     = Quantity(pre.stockLevel, a.productId, a.locationId)
                /\ db.salesOrderItem = pre.salesOrderItem
                /\ db.salesOrder = pre.salesOrder
                /\ db.transaction = pre.transaction

\* The order-status triggers among the emitted ones that name the order and
\* carry the status.
StatusTriggers(emitted, orderId, status) ==
    {t \in emitted : t.type = "ORDER_STATUS_UPDATE" /\ t.entityId = orderId /\ t.status = status}

\* C15: a successful receivePurchaseOrderItem or shipSalesOrderItem that
\* changes the status of the order emits an order-status-changed trigger
\* with the new status for that order; when the status does not change, it
\* emits none.
StatusChangeNotified ==
    \A p \in Procs :
        LET a == proc[p].args
            pre == proc[p].pre
        IN /\ (Answered(p, "receivePurchaseOrderItem") /\ Succeeded(p)) =>
                ((db.purchaseOrder[a.orderId].status # pre.purchaseOrder[a.orderId].status)
                    <=> StatusTriggers(proc[p].emitted, a.orderId,
                                       db.purchaseOrder[a.orderId].status) # {})
           /\ (Answered(p, "shipSalesOrderItem") /\ Succeeded(p)) =>
                ((db.salesOrder[a.orderId].status # pre.salesOrder[a.orderId].status)
                    <=> StatusTriggers(proc[p].emitted, a.orderId,
                                       db.salesOrder[a.orderId].status) # {})

\* A recordAdjustment of type ADJUSTMENT_IN succeeded.
InboundAdjustmentDone(p) ==
    /\ Answered(p, "recordAdjustment")
    /\ Succeeded(p)
    /\ proc[p].args.type = "ADJUSTMENT_IN"

\* C19: a successful recordAdjustment of type ADJUSTMENT_IN and quantity
\* q > 0 on (P,L) raises StockLevel(P,L).quantity by exactly q (from 0 to q
\* when there was no row) and adds exactly one Transaction row, of type
\* ADJUSTMENT_IN, quantityChange q, destinationLocationId L and no
\* sourceLocationId.
InboundAdjustmentEffect ==
    \A p \in Procs :
        InboundAdjustmentDone(p) =>
            LET a == proc[p].args
                pre == proc[p].pre
                added == db.transaction (-) pre.transaction
            IN /\ a.quantity > 0
               /\ db.stockLevel[<<a.productId, a.locationId>>].exists
               /\ Quantity(db.stockLevel, a.productId, a.locationId)
                    = Quantity(pre.stockLevel, a.productId, a.locationId) + a.quantity
               /\ pre.transaction (+) added = db.transaction
               /\ added = SetToBag({[type |-> "ADJUSTMENT_IN", productId |-> a.productId,
                                     quantityChange |-> a.quantity,
                                     sourceLocationId |-> Null,
                                     destinationLocationId |-> a.locationId,
                                     relatedPoId |-> Null, relatedSoId |-> Null]})

\* The adjustment created the StockLevel row, with the whole quantity.
InboundAdjustmentEffectWitness ==
    /\ InboundAdjustmentDone(1)
    /\ ~proc[1].pre.stockLevel[<<proc[1].args.productId, proc[1].args.locationId>>].exists
    /\ proc[1].args.quantity = MaxQuantity
    /\ Quantity(db.stockLevel, proc[1].args.productId, proc[1].args.locationId) = MaxQuantity

\* The low-stock triggers among the emitted ones.
LowStockTriggers(emitted) == {t \in emitted : t.type = "LOW_STOCK"}

\* C16: the low-stock trigger fires exactly on a threshold crossing.
\* adjustStockLevel emits it if and only if the reorderLevel of the product
\* is above 0, the quantity stored for (product, location) before the call
\* (0 when there was no row) was above reorderLevel, and the quantity stored
\* after the call is at or below reorderLevel.
LowStockOnCrossing ==
    \A p \in Procs :
        Answered(p, "adjustStockLevel") =>
            LET a == proc[p].args
                reorderLevel == db.product[a.productId].reorderLevel
            IN (LowStockTriggers(proc[p].emitted) # {})
                 <=> /\ reorderLevel > 0
                     /\ Quantity(proc[p].pre.stockLevel, a.productId, a.locationId)
                          > reorderLevel
                     /\ Quantity(db.stockLevel, a.productId, a.locationId) <= reorderLevel

\* adjustStockLevel was called with quantityChange = 0.
ZeroAdjustment(p) == Answered(p, "adjustStockLevel") /\ proc[p].args.quantity = 0

\* C18: adjustStockLevel with quantityChange = 0 fails (BadRequestError) for
\* every product, location and value of checkNegative; it creates no
\* StockLevel row, changes no quantity and emits no low-stock trigger.
ZeroQuantityRejected ==
    \A p \in Procs :
        ZeroAdjustment(p) =>
            /\ proc[p].result = "BadRequestError"
            /\ db.stockLevel = proc[p].pre.stockLevel
            /\ db = proc[p].pre
            /\ proc[p].emitted = {}

\* The call named a location that has no StockLevel row for the product, and
\* did not ask for the check of the sign.
ZeroQuantityRejectedWitness ==
    /\ ZeroAdjustment(1)
    /\ proc[1].args.locationId \in Locations
    /\ ~proc[1].pre.stockLevel[<<proc[1].args.productId, proc[1].args.locationId>>].exists
    /\ ~proc[1].args.checkNegative
    /\ \E k \in StockKeys : proc[1].pre.stockLevel[k].quantity > 0
    /\ proc[1].result = "BadRequestError"

\* The changes of the successful call process p answered are committed.
EffectsCommitted(p) ==
    LET a == proc[p].args
        pre == proc[p].pre
        moved == /\ db.stockLevel # pre.stockLevel
                 /\ BagCardinality(db.transaction)
                      = BagCardinality(pre.transaction) + TransactionsOf(proc[p].op)
    IN CASE proc[p].op \in {"recordAdjustment", "recordTransfer"} -> moved
         [] proc[p].op = "receivePurchaseOrderItem" ->
                /\ moved
                /\ db.purchaseOrderItem[a.itemId].quantityReceived
                     = pre.purchaseOrderItem[a.itemId].quantityReceived + a.quantity
         [] proc[p].op = "shipSalesOrderItem" ->
                /\ moved
                /\ db.salesOrderItem[a.itemId].quantityShipped
                     = pre.salesOrderItem[a.itemId].quantityShipped + a.quantity
         [] proc[p].op = "updatePurchaseOrderStatus" ->
                db.purchaseOrder[a.orderId].status = a.status
         [] proc[p].op = "updateSalesOrderStatus" ->
                db.salesOrder[a.orderId].status = a.status
         [] OTHER -> TRUE

\* The notifications of the call whose creation failed.
NotCreated(p, type) == {t \in proc[p].emitted : t.type = type /\ ~t.created}

CreationOutcome(p, missing, before, after, itemsBefore, itemsAfter, orderKey, fulfilledKey) ==
    LET a == proc[p].args
        used == a.orderNumber # Null
                  /\ \E o \in DOMAIN before : before[o].orderNumber = a.orderNumber
        newOrders == DOMAIN after \ DOMAIN before
        newItems == DOMAIN itemsAfter \ DOMAIN itemsBefore
    IN /\ proc[p].result = "NotFoundError" <=> missing
       /\ proc[p].result = "ConflictError" <=> (~missing /\ used)
       /\ (~missing /\ ~used) => proc[p].result \in {"none", "DbError"}
       /\ Succeeded(p) =>
            /\ Cardinality(newOrders) = 1
            /\ \A o \in DOMAIN before : after[o] = before[o]
            /\ \A o \in newOrders :
                /\ after[o].status = "PENDING"
                /\ a.orderNumber # Null => after[o].orderNumber = a.orderNumber
                /\ \A q \in DOMAIN before : before[q].orderNumber # after[o].orderNumber
                /\ Cardinality(newItems) = Len(a.items)
                /\ \A i \in newItems :
                    /\ itemsAfter[i][orderKey] = o
                    /\ itemsAfter[i][fulfilledKey] = 0
                /\ \A n \in DOMAIN a.items :
                    \E i \in newItems :
                        /\ itemsAfter[i].productId = a.items[n].productId
                        /\ itemsAfter[i].quantityOrdered = a.items[n].quantityOrdered
       /\ ~Succeeded(p) => (after = before /\ itemsAfter = itemsBefore)

\* A line of the call names a product that does not exist.
ProductMissing(p) ==
    \E n \in DOMAIN proc[p].args.items :
        proc[p].args.items[n].productId \notin DOMAIN proc[p].pre.product

\* C20: createPurchaseOrder / createSalesOrder fails with NotFoundError
\* exactly when the supplier (purchase only) or the product of some line
\* does not exist, and with ConflictError exactly when the order number
\* given is already used; otherwise it stores one header of status PENDING
\* and one item for each line with fulfilled quantity 0; a failed creation
\* stores neither header nor items.
OrderCreation ==
    \A p \in Procs :
        /\ Answered(p, "createPurchaseOrder") =>
             CreationOutcome(p,
                 proc[p].args.supplierId \notin proc[p].pre.supplier \/ ProductMissing(p),
                 proc[p].pre.purchaseOrder, db.purchaseOrder,
                 proc[p].pre.purchaseOrderItem, db.purchaseOrderItem,
                 "purchaseOrderId", "quantityReceived")
        /\ Answered(p, "createSalesOrder") =>
             CreationOutcome(p, ProductMissing(p),
                 proc[p].pre.salesOrder, db.salesOrder,
                 proc[p].pre.salesOrderItem, db.salesOrderItem,
                 "salesOrderId", "quantityShipped")

\* The sum of quantityChange over the Transaction rows of the type that are
\* related to the order.
OrderLedgerSum(transaction, type, relatedKey, orderId) ==
    LET rows == {row \in BagToSet(transaction) : row.type = type /\ row[relatedKey] = orderId}
    IN SumOver([row \in rows |-> row.quantityChange * CopiesIn(row, transaction)], rows)

\* C21: in every committed state, the quantityReceived of the items of a
\* purchase order add up to the quantityChange of the PURCHASE rows related
\* to the order, and the quantityShipped of the items of a sales order add up
\* to minus the quantityChange of the SALE rows related to the order.
OrderLedgerAgreement ==
    /\ \A o \in PoIds :
        TotalReceived(ItemsOfPO(db.purchaseOrderItem, o))
            = OrderLedgerSum(db.transaction, "PURCHASE", "relatedPoId", o)
    /\ \A o \in SoIds :
        TotalShipped(ItemsOfSO(db.salesOrderItem, o))
            = -OrderLedgerSum(db.transaction, "SALE", "relatedSoId", o)

\* Two receipts of the same item, quantity and location have committed: the
\* Transaction table holds the same PURCHASE row twice.
OrderLedgerAgreementWitness ==
    /\ Answered(1, "receivePurchaseOrderItem")
    /\ Succeeded(1)
    /\ \E row \in BagToSet(db.transaction) :
        /\ row.type = "PURCHASE"
        /\ row.relatedPoId = proc[1].args.orderId
        /\ CopiesIn(row, db.transaction) = 2
    /\ TotalReceived(ItemsOfPO(db.purchaseOrderItem, proc[1].args.orderId)) >= 2

InboundTypes == {"PURCHASE", "ADJUSTMENT_IN", "TRANSFER_IN"}
OutboundTypes == {"SALE", "ADJUSTMENT_OUT", "TRANSFER_OUT"}

\* The sign of quantityChange and the location columns a row of the type
\* fills in.
WellFormedRow(row) ==
    /\ row.type \in InboundTypes => row.quantityChange > 0
    /\ row.type \in OutboundTypes => row.quantityChange < 0
    /\ row.type \in {"ADJUSTMENT_OUT", "SALE"} =>
        row.sourceLocationId # Null /\ row.destinationLocationId = Null
    /\ row.type \in {"ADJUSTMENT_IN", "PURCHASE"} =>
        row.sourceLocationId = Null /\ row.destinationLocationId # Null
    /\ row.type \in {"TRANSFER_IN", "TRANSFER_OUT"} =>
        row.sourceLocationId # Null /\ row.destinationLocationId # Null

\* C24: every Transaction row has quantityChange above 0 when its type is
\* PURCHASE, ADJUSTMENT_IN or TRANSFER_IN and below 0 when it is SALE,
\* ADJUSTMENT_OUT or TRANSFER_OUT; an adjustment row fills in one location
\* (source when OUT, destination when IN), a transfer row both, a PURCHASE
\* row the destination only and a SALE row the source only.
TransactionRowsWellFormed ==
    \A row \in BagToSet(db.transaction) :
        /\ row.type \in InboundTypes \cup OutboundTypes
        /\ WellFormedRow(row)

\* The table holds a row that takes stock out and a row that brings stock in.
TransactionRowsWellFormedWitness ==
    /\ \E row \in BagToSet(db.transaction) : row.type \in {"ADJUSTMENT_OUT", "SALE", "TRANSFER_OUT"}
    /\ \E row \in BagToSet(db.transaction) : row.type \in {"ADJUSTMENT_IN", "PURCHASE", "TRANSFER_IN"}
    /\ BagCardinality(db.transaction) >= 3

\* C25: an enforced outbound movement (ADJUSTMENT_OUT, transfer source,
\* shipment) of a quantity above 0 from a (product, location) that has no
\* StockLevel row is rejected: the pair still has no row afterwards and the
\* Transaction table is as before the call.
MissingRowRejected ==
    \A p \in Procs :
        LET a == proc[p].args
            pre == proc[p].pre
        IN (/\ EnforcedOutbound(p)
            /\ <<a.productId, a.locationId>> \in StockKeys
            /\ ~pre.stockLevel[<<a.productId, a.locationId>>].exists) =>
                /\ ~Succeeded(p)
                /\ ~db.stockLevel[<<a.productId, a.locationId>>].exists
                /\ db.transaction = pre.transaction

\* C23: a low-stock trigger is emitted only by an operation whose transaction
\* commits: an operation that moves stock and fails, its transaction rolled
\* back (a transfer whose destination step fails after the decrement of the
\* source crossed the reorder level, for one), has emitted no low-stock
\* trigger.
LowStockOnlyOnCommit ==
    \A p \in Procs :
        (proc[p].pc = "done" /\ proc[p].op \in StockMovingOps /\ ~Succeeded(p)) =>
            LowStockTriggers(proc[p].emitted) = {}

\* C27: adjustStockLevel with quantityChange above 0 emits no low-stock
\* trigger, whatever the quantity before the call and the reorderLevel.
InboundNeverLowStock ==
    \A p \in Procs :
        (Answered(p, "adjustStockLevel") /\ proc[p].args.quantity > 0) =>
            LowStockTriggers(proc[p].emitted) = {}

\* An inbound adjustStockLevel has succeeded on an existing row and left the
\* quantity at or below a reorderLevel that is set.
InboundNeverLowStockWitness ==
    LET a == proc[1].args
    IN /\ Answered(1, "adjustStockLevel")
       /\ Succeeded(1)
       /\ a.quantity > 0
       /\ proc[1].pre.stockLevel[<<a.productId, a.locationId>>].exists
       /\ db.product[a.productId].reorderLevel > 0
       /\ Quantity(db.stockLevel, a.productId, a.locationId)
            <= db.product[a.productId].reorderLevel

\* C28: a purchase order that has left PENDING never returns to PENDING,
\* whatever updatePurchaseOrderStatus and receivePurchaseOrderItem calls
\* follow.
NoReturnToPending ==
    \A o \in PoIds :
        db.purchaseOrder[o].status # "PENDING" => db'.purchaseOrder[o].status # "PENDING"

PendingNeverRestored == [][NoReturnToPending]_vars

\* A receipt has succeeded on an order that had left PENDING and has set the
\* status it derived from the items.
PendingNeverRestoredWitness ==
    LET o == proc[1].args.orderId
    IN /\ Answered(1, "receivePurchaseOrderItem")
       /\ Succeeded(1)
       /\ proc[1].pre.purchaseOrder[o].status = "APPROVED"
       /\ db.purchaseOrder[o].status = "PARTIAL"

\* C29: the status of a purchase order is never SHIPPED and the status of a
\* sales order is never RECEIVED, whatever manual status updates and
\* fulfillment calls are made.
StatusOfOwnKind ==
    /\ \A o \in PoIds : db.purchaseOrder[o].status # "SHIPPED"
    /\ \A o \in SoIds : db.salesOrder[o].status # "RECEIVED"

\* C30: updatePurchaseOrderStatus and updateSalesOrderStatus, successful or
\* rejected, leave the ordered and fulfilled quantities of every item, every
\* StockLevel and the Transaction table as they were before the call.
ManualUpdateFrame ==
    \A p \in Procs :
        (Answered(p, "updatePurchaseOrderStatus") \/ Answered(p, "updateSalesOrderStatus")) =>
            /\ db.purchaseOrderItem = proc[p].pre.purchaseOrderItem
            /\ db.salesOrderItem = proc[p].pre.salesOrderItem
            /\ db.stockLevel = proc[p].pre.stockLevel
            /\ db.transaction = proc[p].pre.transaction

\* A purchase order with received items has been set to CANCELLED.
ManualUpdateFrameWitness ==
    LET o == proc[1].args.orderId
    IN /\ Answered(1, "updatePurchaseOrderStatus")
       /\ Succeeded(1)
       /\ proc[1].args.status = "CANCELLED"
       /\ db.purchaseOrder[o].status = "CANCELLED"
       /\ TotalReceived(ItemsOfPO(db.purchaseOrderItem, o)) > 0

\* The units the enforced outbound operation of process p took, 0 when it
\* failed.
TakenBy(p) == IF Succeeded(p) THEN proc[p].args.quantity ELSE 0

\* C22: two enforced outbound operations (ADJUSTMENT_OUT, transfer source,
\* shipment) on the same (product, location) whose quantities add up to more
\* than the stock available take effect one after the other: the ones that
\* succeeded fit in the available quantity, and the committed quantity at the
\* end is the initial quantity minus the quantities of the ones that
\* succeeded.  Nothing else adds to the row meanwhile, so the initial
\* quantity is the larger of the two the calls started on.
ConcurrentDecrements ==
    LET a == proc[1].args
        b == proc[2].args
        initial == Max(Quantity(proc[1].pre.stockLevel, a.productId, a.locationId),
                       Quantity(proc[2].pre.stockLevel, a.productId, a.locationId))
    IN (/\ EnforcedOutbound(1) /\ EnforcedOutbound(2)
        /\ <<a.productId, a.locationId>> \in StockKeys
        /\ a.productId = b.productId /\ a.locationId = b.locationId
        /\ a.quantity + b.quantity > initial) =>
            /\ TakenBy(1) + TakenBy(2) <= initial
            /\ Quantity(db.stockLevel, a.productId, a.locationId)
                 = initial - (TakenBy(1) + TakenBy(2))

\* The product is referenced by a stock movement (a StockLevel or Transaction
\* row) or by an order item.
Referenced(d, id) ==
    \/ \E k \in DOMAIN d.stockLevel : k[1] = id /\ d.stockLevel[k].exists
    \/ \E row \in BagToSet(d.transaction) : row.productId = id
    \/ \E i \in DOMAIN d.purchaseOrderItem : d.purchaseOrderItem[i].productId = id
    \/ \E i \in DOMAIN d.salesOrderItem : d.salesOrderItem[i].productId = id

\* deleteProduct for a referenced product has failed with ConflictError and
\* has left the product, its StockLevel rows and the Transaction table.
DeleteRejected ==
    \A p \in Procs :
        LET id == proc[p].args.productId
        IN (Answered(p, "deleteProduct") /\ Referenced(proc[p].pre, id)) =>
                /\ proc[p].result = "ConflictError"
                /\ id \in DOMAIN db.product
                /\ db.stockLevel = proc[p].pre.stockLevel
                /\ db.transaction = proc[p].pre.transaction

\* No step takes away the product or the last reference to it.
ReferencedStays ==
    \A id \in CatalogProducts :
        Referenced(db, id) => Referenced(db', id) /\ id \in DOMAIN db'.product

\* C26: once a product is referenced by a stock movement (a StockLevel or
\* Transaction row exists for it) or by an order item, every later
\* deleteProduct for it fails with ConflictError, and the product, its
\* StockLevel rows and its Transaction rows remain.
ReferencedProductKept == []DeleteRejected /\ [][ReferencedStays]_vars

\* deleteProduct has been rejected for a product that only order items refer
\* to, after another product was deleted.
ReferencedProductKeptWitness ==
    LET id == proc[1].args.productId
    IN /\ Answered(1, "deleteProduct")
       /\ proc[1].result = "ConflictError"
       /\ \A k \in DOMAIN db.stockLevel : k[1] = id => ~db.stockLevel[k].exists
       /\ \A row \in BagToSet(db.transaction) : row.productId # id
       /\ \E i \in DOMAIN db.salesOrderItem : db.salesOrderItem[i].productId = id
       /\ DOMAIN db.product # CatalogProducts

====
